---- MODULE Spec2Model ----
(***************************************************************************)
(* Replay Manager of optimus (job/replay_manager.go): admission of replay  *)
(* requests (validate, record, non-blocking handoff on a zero-capacity     *)
(* channel), the worker pool draining the channel, and Close.              *)
(*                                                                         *)
(* Goroutines that run the same code are interchangeable, so the pool is   *)
(* kept as counts per position of the worker loop; a worker that is inside *)
(* Process is identified by the request it holds.                          *)
(***************************************************************************)
EXTENDS Naturals, Sequences, FiniteSets

VARIABLES
    pc,             \* position of each Replay call inside Manager.Replay
    req,            \* the *ReplayWorkerRequest each call was given (ID is written by Replay)
    ret,            \* what each Replay call returned: [id, err]
    store,          \* the replay records, in insertion order
    requestQClosed, \* whether close(m.requestQ) has happened
    requestMap,     \* keys of m.requestMap (every value stored is true)
    wg,             \* counter of m.wg
    workerRunning,  \* worker goroutines running towards the receive of `range m.requestQ`
    workerRecv,     \* worker goroutines parked in the receive
    workerStopped,  \* worker goroutines that left the loop (wg.Done ran)
    inProcess,      \* calls whose request is inside replayWorker.Process
    delivered,      \* per call: number of times its request was received by a worker
    processed,      \* per call: number of Process invocations that returned
    passed,         \* per call: validate returned nil
    queried,        \* per call: what GetByStatus answered inside validate
    outcome,        \* per call: what Process returned and left in the record
    sendAttempts,   \* per call: number of executions of the select of Replay
    closePc,        \* position of each Close call
    initCalls,      \* number of Init calls made on top of the one in NewManager
    vIn,            \* input of the validator (validator specification only)
    vOut            \* output of the validator (validator specification only)

vars == <<pc, req, ret, store, requestQClosed, requestMap, wg, workerRunning,
          workerRecv, workerStopped, inProcess, delivered, processed, passed,
          queried, outcome, sendAttempts, closePc, initCalls, vIn, vOut>>

----------------------------------------------------------------------------
(* Bounds *)

NumWorkers == 1
MaxCalls == 2
MaxCloseCalls == 2
MaxInitCalls == 1
MaxDate == 2
MaxActive == 2

Calls == 1..MaxCalls
CloseCalls == 1..MaxCloseCalls
Dates == 1..MaxDate

----------------------------------------------------------------------------
(* Collaborators: jobs, the tree builder, the identity provider, the store *)

Jobs == {"x", "y", "z"}

\* downstream dependents of a job in the JobSpecMap: y depends on x
Dependents(j) == IF j = "x" THEN <<"y">> ELSE <<>>

\* the job's own schedule: x runs on odd days, y and z every day
Scheduled(j, d) == IF j = "x" THEN d % 2 = 1 ELSE TRUE

Runs(j, s, e) == {d \in s..e : Scheduled(j, d)}

RECURSIVE SubTrees(_, _, _)
RECURSIVE TreeNodes(_, _, _)
\* nodes of the tree rooted at j: the root, then each dependent's subtree
TreeNodes(j, s, e) ==
    <<[name |-> j, runs |-> Runs(j, s, e)]>> \o SubTrees(Dependents(j), s, e)
SubTrees(js, s, e) ==
    IF js = <<>> THEN <<>>
    ELSE TreeNodes(Head(js), s, e) \o SubTrees(Tail(js), s, e)

\* the sets of jobs the tree builder may fail on in one validation
Failing == {{}, {"y"}}

\* prepareTree followed by GetAllNodes
prepareTree(r, failing) ==
    IF r.job \in failing THEN [err |-> TRUE, nodes |-> <<>>]
    ELSE [err |-> FALSE, nodes |-> TreeNodes(r.job, r.start, r.end)]

NoID == 0
\* uuidProvider.NewUUID: a value no other call gets
NewUUID(r) == r

StatusAccepted == "Accepted"
StatusInProgress == "InProgress"
StatusSuccess == "Success"
StatusFailed == "Failed"
Statuses == {StatusAccepted, StatusInProgress, StatusSuccess, StatusFailed}

RECURSIVE SelectByStatus(_, _)
SelectByStatus(recs, statuses) ==
    IF recs = <<>> THEN <<>>
    ELSE IF Head(recs).status \in statuses
         THEN <<Head(recs)>> \o SelectByStatus(Tail(recs), statuses)
         ELSE SelectByStatus(Tail(recs), statuses)

\* the replies replaySpecRepo.GetByStatus can give on the records recs
GetByStatus(recs, statuses) ==
    LET found == SelectByStatus(recs, statuses) IN
    { [err |-> "other", specs |-> <<>>] } \cup
    { IF found = <<>> THEN [err |-> "notfound", specs |-> <<>>]
                      ELSE [err |-> "none", specs |-> found] }

----------------------------------------------------------------------------
(* The Conflict Validator *)

\* mutant: two nodes of the same job conflict whatever their runs
checkAnyConflictedRuns_NameOnly(activeNode, reqNode) == "errConflict"

checkAnyConflictedRuns(activeNode, reqNode) ==
    IF \E a \in activeNode.runs : \E q \in reqNode.runs : a = q
    THEN "errConflict" ELSE "nil"

checkAnyConflictedDags(activeNodes, reqReplayNodes) ==
    LET matches == {p \in (1..Len(activeNodes)) \X (1..Len(reqReplayNodes)) :
                      activeNodes[p[1]].name = reqReplayNodes[p[2]].name}
    IN IF matches = {} THEN "nil"
       ELSE LET first == CHOOSE p \in matches : \A q \in matches :
                            p[1] < q[1] \/ (p[1] = q[1] /\ p[2] <= q[2])
            IN checkAnyConflictedRuns(activeNodes[first[1]], reqReplayNodes[first[2]])

\* mutant: every active record is compared, not only the first
validateReplayJobsConflict_Exhaustive(activeReplaySpecs, reqReplayNodes, failing) ==
    IF \E i \in 1..Len(activeReplaySpecs) :
          /\ ~prepareTree(activeReplaySpecs[i], failing).err
          /\ checkAnyConflictedDags(prepareTree(activeReplaySpecs[i], failing).nodes,
                                    reqReplayNodes) = "errConflict"
    THEN "errConflict" ELSE "nil"

validateReplayJobsConflict(activeReplaySpecs, reqReplayNodes, failing) ==
    IF Len(activeReplaySpecs) = 0 THEN "nil"
    ELSE LET activeSpec == activeReplaySpecs[1]
             activeTree == prepareTree(activeSpec, failing)
         IN IF activeTree.err THEN "errTree"
            ELSE checkAnyConflictedDags(activeTree.nodes, reqReplayNodes)

\* mutant: the store's "not found" is returned like any other error
validate_NotFoundFails(reply, reqInput, failing) ==
    LET reqReplayTree == prepareTree(reqInput, failing) IN
    IF reqReplayTree.err THEN "errTree"
    ELSE IF reply.err # "none" THEN "errStore"
    ELSE validateReplayJobsConflict(reply.specs, reqReplayTree.nodes, failing)

validate(reply, reqInput, failing) ==
    LET reqReplayTree == prepareTree(reqInput, failing) IN
    IF reqReplayTree.err THEN "errTree"
    ELSE IF reply.err = "notfound" THEN "nil"
    ELSE IF reply.err # "none" THEN "errStore"
    ELSE validateReplayJobsConflict(reply.specs, reqReplayTree.nodes, failing)

----------------------------------------------------------------------------
(* Initial state: the manager as NewManager returns it *)

AllInputs == {[job |-> j, start |-> s, end |-> e, id |-> NoID] :
                j \in Jobs, s \in Dates, e \in Dates}

\* the requests callers submit to the running manager: x and y meet on node y,
\* z shares no node with either
ReplayInputs == {[job |-> "x", start |-> 1, end |-> 1, id |-> NoID],
                 [job |-> "y", start |-> 1, end |-> MaxDate, id |-> NoID],
                 [job |-> "z", start |-> 1, end |-> 1, id |-> NoID]}

NoReq == [job |-> "none", start |-> 0, end |-> 0, id |-> NoID]
NoRet == [id |-> NoID, err |-> "pending"]
NoOutcome == [err |-> FALSE, status |-> "none"]
NoInput == [reply |-> [err |-> "notfound", specs |-> <<>>], req |-> NoReq, failing |-> {}]

NewManager ==
    /\ pc = [r \in Calls |-> "notCalled"]
    /\ req = [r \in Calls |-> NoReq]
    /\ ret = [r \in Calls |-> NoRet]
    /\ store = <<>>
    /\ requestQClosed = FALSE
    /\ requestMap = {}
    /\ wg = NumWorkers
    /\ workerRunning = NumWorkers
    /\ workerRecv = 0
    /\ workerStopped = 0
    /\ inProcess = {}
    /\ delivered = [r \in Calls |-> 0]
    /\ processed = [r \in Calls |-> 0]
    /\ passed = [r \in Calls |-> FALSE]
    /\ queried = [r \in Calls |-> "unasked"]
    /\ outcome = [r \in Calls |-> NoOutcome]
    /\ sendAttempts = [r \in Calls |-> 0]
    /\ closePc = [c \in CloseCalls |-> "notCalled"]
    /\ initCalls = 0

Init == NewManager /\ vIn = NoInput /\ vOut = "none"

----------------------------------------------------------------------------
(* Manager.Replay, one action per step between two accesses of shared state. *)
(* Calls are numbered in the order in which they enter Replay.              *)

Return(r, id, err) ==
    /\ pc' = [pc EXCEPT ![r] = "returned"]
    /\ ret' = [ret EXCEPT ![r] = [id |-> id, err |-> err]]

\* lines 102-112: the answer of GetByStatus, which validate asks for only once the
\* request's tree is built
Asked(reply, reqInput, failing) ==
    IF prepareTree(reqInput, failing).err THEN "unasked" ELSE reply.err

\* mutant: the error of validate is dropped and Replay goes on
ReplayValidate_IgnoresError(r) ==
    /\ pc[r] = "notCalled"
    /\ IF r = 1 THEN TRUE ELSE pc[r - 1] # "notCalled"
    /\ \E reqInput \in ReplayInputs, failing \in Failing :
         \E reply \in GetByStatus(store, {StatusInProgress, StatusAccepted}) :
            /\ req' = [req EXCEPT ![r] = reqInput]
            /\ pc' = [pc EXCEPT ![r] = "afterValidate"]
            /\ passed' = [passed EXCEPT ![r] = validate(reply, reqInput, failing) = "nil"]
            /\ queried' = [queried EXCEPT ![r] = Asked(reply, reqInput, failing)]
    /\ UNCHANGED <<ret, store, requestQClosed, requestMap, wg, workerRunning, workerRecv,
                   workerStopped, inProcess, delivered, processed, sendAttempts,
                   closePc, initCalls, vIn, vOut, outcome>>

\* lines 60-65: replaySpecRepoFac.New, validate, return on error
ReplayValidate(r) ==
    /\ pc[r] = "notCalled"
    /\ IF r = 1 THEN TRUE ELSE pc[r - 1] # "notCalled"
    /\ \E reqInput \in ReplayInputs, failing \in Failing :
         /\ reqInput.start <= reqInput.end
         /\ \E reply \in GetByStatus(store, {StatusInProgress, StatusAccepted}) :
              LET err == validate(reply, reqInput, failing) IN
              /\ req' = [req EXCEPT ![r] = reqInput]
              /\ queried' = [queried EXCEPT ![r] = Asked(reply, reqInput, failing)]
              /\ IF err # "nil"
                 THEN Return(r, NoID, err) /\ UNCHANGED passed
                 ELSE /\ pc' = [pc EXCEPT ![r] = "afterValidate"]
                      /\ passed' = [passed EXCEPT ![r] = TRUE]
                      /\ UNCHANGED ret
    /\ UNCHANGED <<store, requestQClosed, requestMap, wg, workerRunning, workerRecv,
                   workerStopped, inProcess, delivered, processed, sendAttempts,
                   closePc, initCalls, vIn, vOut, outcome>>

\* mutant: Replay goes on to the send without having written the record
ReplayInsert_NoRecord(r) ==
    /\ pc[r] = "afterValidate"
    /\ req' = [req EXCEPT ![r].id = NewUUID(r)]
    /\ pc' = [pc EXCEPT ![r] = "afterInsert"]
    /\ UNCHANGED <<ret, store, requestQClosed, requestMap, wg, workerRunning, workerRecv,
                   workerStopped, inProcess, delivered, processed, passed,
                   sendAttempts, closePc, initCalls, vIn, vOut, queried, outcome>>

\* mutant: the request is sent before Insert, so a failed Insert follows a handoff
ReplayInsert_AfterSend(r) ==
    /\ pc[r] = "afterValidate"
    /\ req' = [req EXCEPT ![r].id = NewUUID(r)]
    /\ workerRecv > 0
    /\ workerRecv' = workerRecv - 1
    /\ inProcess' = inProcess \cup {r}
    /\ delivered' = [delivered EXCEPT ![r] = @ + 1]
    /\ sendAttempts' = [sendAttempts EXCEPT ![r] = @ + 1]
    /\ Return(r, NoID, "errInsert")
    /\ UNCHANGED <<store, requestQClosed, requestMap, wg, workerRunning,
                   workerStopped, processed, passed, closePc, initCalls, vIn, vOut, queried, outcome>>

\* mutant: the id is written to the request only once Insert has succeeded
ReplayInsert_IdAfterInsert(r) ==
    /\ pc[r] = "afterValidate"
    /\ \/ Return(r, NoID, "errUUID") /\ UNCHANGED <<req, store>>
       \/ Return(r, NoID, "errInsert") /\ UNCHANGED <<req, store>>
       \/ /\ req' = [req EXCEPT ![r].id = NewUUID(r)]
          /\ store' = Append(store, [id |-> NewUUID(r), job |-> req[r].job,
                                     start |-> req[r].start, end |-> req[r].end,
                                     status |-> StatusAccepted])
          /\ pc' = [pc EXCEPT ![r] = "afterInsert"]
          /\ UNCHANGED ret
    /\ UNCHANGED <<requestQClosed, requestMap, wg, workerRunning, workerRecv,
                   workerStopped, inProcess, delivered, processed, passed,
                   sendAttempts, closePc, initCalls, vIn, vOut, queried, outcome>>

\* lines 67-83: uuidProvider.NewUUID, return on error, reqInput.ID = uuidOb, build
\* the ReplaySpec with status Accepted, Insert, return on error. The steps before
\* Insert touch nothing but the caller's own request.
ReplayInsert(r) ==
    /\ pc[r] = "afterValidate"
    /\ \/ Return(r, NoID, "errUUID") /\ UNCHANGED <<req, store>>
       \/ /\ req' = [req EXCEPT ![r].id = NewUUID(r)]
          /\ \/ Return(r, NoID, "errInsert") /\ UNCHANGED store
             \/ /\ store' = Append(store, [id |-> NewUUID(r), job |-> req[r].job,
                                           start |-> req[r].start, end |-> req[r].end,
                                           status |-> StatusAccepted])
                /\ pc' = [pc EXCEPT ![r] = "afterInsert"]
                /\ UNCHANGED ret
    /\ UNCHANGED <<requestQClosed, requestMap, wg, workerRunning, workerRecv,
                   workerStopped, inProcess, delivered, processed, passed,
                   sendAttempts, closePc, initCalls, vIn, vOut, queried, outcome>>

\* mutant: the send takes no notice of the channel being closed
ReplaySend_IgnoresClose(r) ==
    /\ pc[r] = "afterInsert"
    /\ sendAttempts' = [sendAttempts EXCEPT ![r] = @ + 1]
    /\ IF workerRecv > 0
       THEN /\ workerRecv' = workerRecv - 1
            /\ inProcess' = inProcess \cup {r}
            /\ delivered' = [delivered EXCEPT ![r] = @ + 1]
            /\ pc' = [pc EXCEPT ![r] = "afterSend"]
            /\ UNCHANGED ret
       ELSE /\ Return(r, NoID, "ErrRequestQueueFull")
            /\ UNCHANGED <<workerRecv, inProcess, delivered>>
    /\ UNCHANGED <<req, store, requestQClosed, requestMap, wg, workerRunning,
                   workerStopped, processed, passed, closePc, initCalls, vIn, vOut, queried, outcome>>

\* mutant: the queue has room for a request when no worker is waiting
ReplaySend_Buffered(r) ==
    /\ pc[r] = "afterInsert"
    /\ sendAttempts' = [sendAttempts EXCEPT ![r] = @ + 1]
    /\ IF requestQClosed
       THEN /\ pc' = [pc EXCEPT ![r] = "panicked"]
            /\ ret' = [ret EXCEPT ![r] = [id |-> NoID, err |-> "panic"]]
            /\ UNCHANGED <<workerRecv, inProcess, delivered>>
       ELSE IF workerRecv > 0
       THEN /\ workerRecv' = workerRecv - 1
            /\ inProcess' = inProcess \cup {r}
            /\ delivered' = [delivered EXCEPT ![r] = @ + 1]
            /\ pc' = [pc EXCEPT ![r] = "afterSend"]
            /\ UNCHANGED ret
       ELSE /\ pc' = [pc EXCEPT ![r] = "afterSend"]
            /\ UNCHANGED <<ret, workerRecv, inProcess, delivered>>
    /\ UNCHANGED <<req, store, requestQClosed, requestMap, wg, workerRunning,
                   workerStopped, processed, passed, closePc,
                   initCalls, vIn, vOut, queried, outcome>>

\* lines 88-98: select { case m.requestQ <- reqInput: ... default: ... }
\* A send on a closed channel panics; on the open zero-capacity channel the send
\* proceeds only if a worker is parked in the receive, and that worker then holds
\* the request.
ReplaySend(r) ==
    /\ pc[r] = "afterInsert"
    /\ sendAttempts' = [sendAttempts EXCEPT ![r] = @ + 1]
    /\ IF requestQClosed
       THEN /\ pc' = [pc EXCEPT ![r] = "panicked"]
            /\ ret' = [ret EXCEPT ![r] = [id |-> NoID, err |-> "panic"]]
            /\ UNCHANGED <<workerRecv, inProcess, delivered>>
       ELSE IF workerRecv > 0
       THEN /\ workerRecv' = workerRecv - 1
            /\ inProcess' = inProcess \cup {r}
            /\ delivered' = [delivered EXCEPT ![r] = @ + 1]
            /\ pc' = [pc EXCEPT ![r] = "afterSend"]
            /\ UNCHANGED ret
       ELSE /\ Return(r, NoID, "ErrRequestQueueFull")
            /\ UNCHANGED <<workerRecv, inProcess, delivered>>
    /\ UNCHANGED <<req, store, requestQClosed, requestMap, wg, workerRunning,
                   workerStopped, processed, passed, closePc,
                   initCalls, vIn, vOut, queried, outcome>>

\* mutant: the id is returned without the entry in the map
ReplayTrack_NoMark(r) ==
    /\ pc[r] = "afterSend"
    /\ Return(r, req[r].id, "nil")
    /\ UNCHANGED <<req, store, requestQClosed, requestMap, wg, workerRunning, workerRecv,
                   workerStopped, inProcess, delivered, processed, passed,
                   sendAttempts, closePc, initCalls, vIn, vOut, queried, outcome>>

\* lines 90-95: under m.mu, m.requestMap[reqInput.ID] = true; return the id
ReplayTrack(r) ==
    /\ pc[r] = "afterSend"
    /\ requestMap' = requestMap \cup {req[r].id}
    /\ Return(r, req[r].id, "nil")
    /\ UNCHANGED <<req, store, requestQClosed, wg, workerRunning, workerRecv,
                   workerStopped, inProcess, delivered, processed, passed,
                   sendAttempts, closePc, initCalls, vIn, vOut, queried, outcome>>

----------------------------------------------------------------------------
(* Manager.spawnServiceWorker *)

\* line 170: the goroutine reaches the receive on the open channel and parks
WorkerReceive ==
    /\ workerRunning > 0
    /\ ~requestQClosed
    /\ workerRunning' = workerRunning - 1
    /\ workerRecv' = workerRecv + 1
    /\ UNCHANGED <<pc, req, ret, store, requestQClosed, requestMap, wg, workerStopped,
                   inProcess, delivered, processed, passed, sendAttempts, closePc, initCalls, vIn, vOut, queried, outcome>>

\* mutant: a worker may leave its loop while the queue is open
WorkerExit_WhileOpen ==
    /\ \/ /\ workerRecv > 0
          /\ workerRecv' = workerRecv - 1
          /\ UNCHANGED workerRunning
       \/ /\ workerRunning > 0
          /\ workerRunning' = workerRunning - 1
          /\ UNCHANGED workerRecv
    /\ workerStopped' = workerStopped + 1
    /\ wg' = wg - 1
    /\ UNCHANGED <<pc, req, ret, store, requestQClosed, requestMap, inProcess,
                   delivered, processed, passed, sendAttempts, closePc,
                   initCalls, vIn, vOut, queried, outcome>>

\* lines 168-170: the receive finds the channel closed, the loop ends, wg.Done runs
WorkerExit ==
    /\ requestQClosed
    /\ \/ /\ workerRecv > 0
          /\ workerRecv' = workerRecv - 1
          /\ UNCHANGED workerRunning
       \/ /\ workerRunning > 0
          /\ workerRunning' = workerRunning - 1
          /\ UNCHANGED workerRecv
    /\ workerStopped' = workerStopped + 1
    /\ wg' = wg - 1
    /\ UNCHANGED <<pc, req, ret, store, requestQClosed, requestMap, inProcess,
                   delivered, processed, passed, sendAttempts, closePc,
                   initCalls, vIn, vOut, queried, outcome>>

\* what replayWorker.Process leaves in the record of the request it was given
ProcessOutcomes == {[err |-> FALSE, status |-> StatusSuccess],
                    [err |-> TRUE, status |-> StatusFailed],
                    [err |-> TRUE, status |-> StatusInProgress],
                    [err |-> TRUE, status |-> StatusAccepted]}

SetStatus(recs, id, status) ==
    [i \in 1..Len(recs) |->
        IF recs[i].id = id THEN [recs[i] EXCEPT !.status = status] ELSE recs[i]]

\* mutant: after an error the worker calls Process on the same request again
WorkerProcessReturn_RetriesOnError(r) ==
    /\ r \in inProcess
    /\ \E o \in ProcessOutcomes :
          /\ store' = SetStatus(store, req[r].id, o.status)
          /\ outcome' = [outcome EXCEPT ![r] = o]
          /\ IF o.err
             THEN UNCHANGED <<inProcess, workerRunning>>
             ELSE /\ inProcess' = inProcess \ {r}
                  /\ workerRunning' = workerRunning + 1
    /\ processed' = [processed EXCEPT ![r] = @ + 1]
    /\ UNCHANGED <<pc, req, ret, requestQClosed, requestMap, wg, workerRecv,
                   workerStopped, delivered, passed, queried, sendAttempts, closePc,
                   initCalls, vIn, vOut>>

\* lines 171-179: Process returns (with or without error), cancelCtx, next iteration
WorkerProcessReturn(r) ==
    /\ r \in inProcess
    /\ \E o \in ProcessOutcomes :
          /\ store' = SetStatus(store, req[r].id, o.status)
          /\ outcome' = [outcome EXCEPT ![r] = o]
    /\ inProcess' = inProcess \ {r}
    /\ processed' = [processed EXCEPT ![r] = @ + 1]
    /\ workerRunning' = workerRunning + 1
    /\ UNCHANGED <<pc, req, ret, requestQClosed, requestMap, wg, workerRecv,
                   workerStopped, delivered, passed, queried, sendAttempts, closePc,
                   initCalls, vIn, vOut>>

----------------------------------------------------------------------------
(* Manager.Close and Manager.Init *)

\* lines 184-187: m.requestQ is never nil; closing a closed channel panics
CloseQueue(c) ==
    /\ closePc[c] = "notCalled"
    /\ IF c = 1 THEN TRUE ELSE closePc[c - 1] # "notCalled"
    /\ IF requestQClosed
       THEN closePc' = [closePc EXCEPT ![c] = "panicked"] /\ UNCHANGED requestQClosed
       ELSE closePc' = [closePc EXCEPT ![c] = "waiting"] /\ requestQClosed' = TRUE
    /\ UNCHANGED <<pc, req, ret, store, requestMap, wg, workerRunning, workerRecv,
                   workerStopped, inProcess, delivered, processed, passed,
                   sendAttempts, initCalls, vIn, vOut, queried, outcome>>

\* mutant: Close returns without waiting for the workers
CloseWait_NoWait(c) ==
    /\ closePc[c] = "waiting"
    /\ closePc' = [closePc EXCEPT ![c] = "returned"]
    /\ UNCHANGED <<pc, req, ret, store, requestQClosed, requestMap, wg, workerRunning,
                   workerRecv, workerStopped, inProcess, delivered, processed, passed,
                   sendAttempts, initCalls, vIn, vOut, queried, outcome>>

\* lines 190-192: m.wg.Wait() returns once the counter is zero
CloseWait(c) ==
    /\ closePc[c] = "waiting"
    /\ wg = 0
    /\ closePc' = [closePc EXCEPT ![c] = "returned"]
    /\ UNCHANGED <<pc, req, ret, store, requestQClosed, requestMap, wg, workerRunning,
                   workerRecv, workerStopped, inProcess, delivered, processed, passed,
                   sendAttempts, initCalls, vIn, vOut, queried, outcome>>

\* mutant: a second Init finds the pool started and spawns nothing
InitCall_Idempotent ==
    /\ initCalls < MaxInitCalls
    /\ initCalls' = initCalls + 1
    /\ UNCHANGED <<pc, req, ret, store, requestQClosed, requestMap, wg, workerRunning,
                   workerRecv, workerStopped, inProcess, delivered, processed, passed,
                   sendAttempts, closePc, vIn, vOut, queried, outcome>>

\* lines 195-201: NumWorkers times wg.Add(1) and go m.spawnServiceWorker()
InitCall ==
    /\ initCalls < MaxInitCalls
    /\ initCalls' = initCalls + 1
    /\ wg' = wg + NumWorkers
    /\ workerRunning' = workerRunning + NumWorkers
    /\ UNCHANGED <<pc, req, ret, store, requestQClosed, requestMap, workerRecv,
                   workerStopped, inProcess, delivered, processed, passed,
                   sendAttempts, closePc, vIn, vOut, queried, outcome>>

----------------------------------------------------------------------------
(* Specifications *)

ReplayStep == \E r \in Calls : \/ ReplayValidate(r)
                               \/ ReplayInsert(r)
                               \/ ReplaySend(r)
                               \/ ReplayTrack(r)

WorkerStep == WorkerReceive \/ WorkerExit \/ (\E r \in Calls : WorkerProcessReturn(r))

CloseStep == \E c \in CloseCalls : CloseQueue(c) \/ CloseWait(c)

Next == ReplayStep \/ WorkerStep \/ CloseStep \/ InitCall

Spec == Init /\ [][Next]_vars

\* The Go scheduler runs every runnable goroutine, and Process is bounded by
\* WorkerTimeout: worker steps and the wake-up of Wait are not postponed forever.
FairSpec ==
    /\ Spec
    /\ WF_vars(WorkerReceive)
    /\ WF_vars(WorkerExit)
    /\ \A r \in Calls : WF_vars(WorkerProcessReturn(r))
    /\ \A c \in CloseCalls : WF_vars(CloseWait(c))

----------------------------------------------------------------------------
(* The validator on its own: any reply of the store, any request *)

RECURSIVE SeqsUpTo(_, _)
SeqsUpTo(S, n) ==
    IF n = 0 THEN {<<>>}
    ELSE LET shorter == SeqsUpTo(S, n - 1)
         IN shorter \cup {Append(q, x) : q \in shorter, x \in S}

ValidInputs == {i \in AllInputs : i.start <= i.end}

\* records the store can hold for accepted requests
StoredSpecs == {[id |-> 1, job |-> i.job, start |-> i.start, end |-> i.end,
                 status |-> StatusAccepted] : i \in ValidInputs}

ValidateInit ==
    /\ NewManager
    /\ \E recs \in SeqsUpTo(StoredSpecs, MaxActive), reqInput \in ValidInputs,
          failing \in Failing :
         \E reply \in GetByStatus(recs, {StatusInProgress, StatusAccepted}) :
            vIn = [reply |-> reply, req |-> reqInput, failing |-> failing]
    /\ vOut = "pending"

ValidateCall ==
    /\ vOut = "pending"
    /\ vOut' = validate(vIn.reply, vIn.req, vIn.failing)
    /\ UNCHANGED <<vIn, pc, req, ret, store, requestQClosed, requestMap, wg,
                   workerRunning, workerRecv, workerStopped, inProcess, delivered,
                   processed, passed, sendAttempts, closePc, initCalls, queried, outcome>>

ValidateSpec == ValidateInit /\ [][ValidateCall]_vars

----------------------------------------------------------------------------
(* Properties *)

RecordsOf(id) == {i \in 1..Len(store) : store[i].id = id}

NilRet(r) == ret[r].err = "nil"

\* C1: when Replay attempts the handoff of a request, and whenever a worker has
\* received it, the store holds exactly one record with the request's id (still
\* Accepted at the attempt); no call ever has more than one record.
C1_RecordBeforeHandoff ==
    \A r \in Calls :
        /\ pc[r] = "afterInsert" =>
              /\ Cardinality(RecordsOf(req[r].id)) = 1
              /\ \A i \in RecordsOf(req[r].id) :
                    /\ store[i].status = StatusAccepted
                    /\ store[i].job = req[r].job
                    /\ store[i].start = req[r].start
                    /\ store[i].end = req[r].end
        /\ (sendAttempts[r] > 0 \/ delivered[r] > 0 \/ r \in inProcess) =>
              Cardinality(RecordsOf(req[r].id)) = 1
        /\ req[r].id # NoID => Cardinality(RecordsOf(req[r].id)) <= 1
        /\ req[r].id = NoID => RecordsOf(req[r].id) = {}

C1_Witness ==
    \E r \in Calls : r \in inProcess /\ pc[r] = "afterSend" /\ Len(store) = 2

PrePersistErrors == {"errTree", "errStore", "errConflict", "errUUID"}

C2_NothingLeft ==
    /\ \A r \in Calls :
          ret[r].err \in PrePersistErrors =>
             /\ pc[r] = "returned"
             /\ ret[r].id = NoID
             /\ req[r].id = NoID
             /\ sendAttempts[r] = 0
             /\ delivered[r] = 0
             /\ r \notin inProcess
    /\ \A i \in 1..Len(store) :
          \E r \in Calls : req[r].id = store[i].id /\ passed[r]
    /\ NoID \notin requestMap

C2_ReturnStep ==
    \A r \in Calls :
        (pc[r] # "returned" /\ pc'[r] = "returned" /\ ret'[r].err \in PrePersistErrors) =>
            /\ store' = store
            /\ requestMap' = requestMap
            /\ requestQClosed' = requestQClosed
            /\ <<wg, workerRunning, workerRecv, workerStopped, inProcess>>' =
                  <<wg, workerRunning, workerRecv, workerStopped, inProcess>>
            /\ delivered' = delivered

\* C2: a Replay that returns a validation, tree-builder or identity-provider error
\* changes neither the store, the queue, the pool nor the tracking map and leaves
\* the request's id unset; every record belongs to a request that passed validate.
C2_RejectedLeavesNoTrace == []C2_NothingLeft /\ [][C2_ReturnStep]_vars

C2_Witness ==
    \E r \in Calls : ret[r].err = "errConflict" /\ Len(store) = 1

\* C3: a send attempt that no worker received ends in ErrRequestQueueFull with an
\* empty id, the request is not tracked and its record stays in the store, Accepted.
C3_FullWhenNoWorkerWaits ==
    \A r \in Calls :
        (sendAttempts[r] > 0 /\ delivered[r] = 0) =>
            /\ pc[r] = "returned"
            /\ ret[r] = [id |-> NoID, err |-> "ErrRequestQueueFull"]
            /\ r \notin inProcess
            /\ processed[r] = 0
            /\ req[r].id \notin requestMap
            /\ Cardinality(RecordsOf(req[r].id)) = 1
            /\ \A i \in RecordsOf(req[r].id) : store[i].status = StatusAccepted

\* C4: a Replay whose Insert failed has returned that error; its request was never
\* sent, received, processed or tracked, and has no record.
C4_InsertFailureNeverQueued ==
    \A r \in Calls :
        ret[r].err = "errInsert" =>
            /\ pc[r] = "returned"
            /\ ret[r].id = NoID
            /\ sendAttempts[r] = 0
            /\ delivered[r] = 0
            /\ processed[r] = 0
            /\ r \notin inProcess
            /\ req[r].id \notin requestMap
            /\ RecordsOf(req[r].id) = {}

C4_Witness ==
    \E r, q \in Calls : ret[r].err = "errInsert" /\ q # r /\ NilRet(q)

\* C5: whatever the pool is doing, Replay can always take its one send attempt
\* without waiting, and after it the call holds a handed-off request or has
\* returned an id or an error.
C5_NonBlockingAdmission ==
    \A r \in Calls :
        /\ pc[r] = "afterInsert" => ENABLED ReplaySend(r)
        /\ sendAttempts[r] <= 1
        /\ sendAttempts[r] = 1 =>
              \/ pc[r] = "afterSend"
              \/ pc[r] = "returned" /\ ret[r] = [id |-> req[r].id, err |-> "nil"]
              \/ pc[r] = "returned" /\ ret[r] = [id |-> NoID, err |-> "ErrRequestQueueFull"]

----------------------------------------------------------------------------
(* Properties of the validator *)

\* the request's tree and the tree of some active record have a node of the same
\* job with a common run instance
Overlaps(specs, reqInput) ==
    \E i \in 1..Len(specs) :
        \E a \in 1..Len(TreeNodes(specs[i].job, specs[i].start, specs[i].end)) :
            \E q \in 1..Len(TreeNodes(reqInput.job, reqInput.start, reqInput.end)) :
                LET an == TreeNodes(specs[i].job, specs[i].start, specs[i].end)[a]
                    qn == TreeNodes(reqInput.job, reqInput.start, reqInput.end)[q]
                IN an.name = qn.name /\ an.runs \cap qn.runs # {}

Answered == vOut # "pending" /\ vIn.reply.err = "none" /\ vIn.failing = {}

\* C6: validate reports a conflict whenever some active record overlaps the request.
C6_EveryOverlapRejected ==
    (Answered /\ Overlaps(vIn.reply.specs, vIn.req)) => vOut = "errConflict"

\* C7: validate reports a conflict only if some active record overlaps the request.
C7_NoFalseConflict ==
    vOut = "errConflict" => (vIn.reply.err = "none" /\ Overlaps(vIn.reply.specs, vIn.req))

C7_Witness ==
    /\ vOut = "errConflict"
    /\ Len(vIn.reply.specs) = 2
    /\ vIn.reply.specs[1].job # vIn.req.job

\* C8: an active record for the same job and the same dates as the request (with at
\* least one run of that job in the range) makes validate report a conflict.
C8_SameJobSameRangeRejected ==
    (/\ Answered
     /\ Runs(vIn.req.job, vIn.req.start, vIn.req.end) # {}
     /\ \E i \in 1..Len(vIn.reply.specs) :
           /\ vIn.reply.specs[i].job = vIn.req.job
           /\ vIn.reply.specs[i].start = vIn.req.start
           /\ vIn.reply.specs[i].end = vIn.req.end)
    => vOut = "errConflict"

----------------------------------------------------------------------------
(* Properties of Close *)

CloseReturned == \E c \in CloseCalls : closePc[c] = "returned"

C9_AfterClose ==
    CloseReturned =>
        /\ requestQClosed
        /\ inProcess = {}
        /\ \A r \in Calls : processed[r] = delivered[r]

C9_ReturnStep ==
    \A c \in CloseCalls :
        (closePc[c] # "returned" /\ closePc'[c] = "returned") =>
            /\ workerRunning = 0 /\ workerRecv = 0 /\ inProcess = {}
            /\ workerStopped = NumWorkers * (1 + initCalls)

\* C9: Close returns only once every spawned worker loop has exited and every
\* request handed to a worker has been processed to the end; afterwards no Process
\* call runs; and a Close that closed the queue does return.
C9_CloseWaitsForWorkers ==
    /\ []C9_AfterClose
    /\ [][C9_ReturnStep]_vars
    /\ \A c \in CloseCalls : (closePc[c] = "waiting") ~> (closePc[c] = "returned")

C9_Witness ==
    /\ CloseReturned
    /\ \E r \in Calls : processed[r] = 1 /\ pc[r] = "afterSend"

C10_ClosedStep ==
    requestQClosed =>
        /\ requestQClosed'
        /\ \A r \in Calls :
              delivered[r] = 0 =>
                  /\ delivered'[r] = 0
                  /\ r \notin inProcess'
                  /\ ret'[r].err # "nil" /\ ret'[r].id = NoID
                  /\ req'[r].id \notin requestMap'

\* C10: once the queue is closed it stays closed, and a request not handed over by
\* then is never handed to a worker, never gets an id returned and never enters the
\* tracking map.
C10_NoAdmissionAfterClose == [][C10_ClosedStep]_vars

C10_Witness ==
    /\ CloseReturned
    /\ \E r \in Calls : ret[r].err = "panic"

----------------------------------------------------------------------------
(* Properties of Init *)

LiveLoops == workerRunning + workerRecv + Cardinality(inProcess)

C11_Pool ==
    /\ LiveLoops + workerStopped = NumWorkers * (1 + initCalls)
    /\ wg = LiveLoops
    /\ ~requestQClosed => LiveLoops = NumWorkers * (1 + initCalls)

C11_Step ==
    /\ initCalls' # initCalls =>
          /\ initCalls' = initCalls + 1
          /\ LiveLoops' = LiveLoops + NumWorkers
          /\ wg' = wg + NumWorkers
    /\ \A c \in CloseCalls :
          (closePc[c] # "returned" /\ closePc'[c] = "returned") =>
              /\ LiveLoops = 0
              /\ workerStopped = NumWorkers * (1 + initCalls)

\* C11: NewManager leaves NumWorkers worker loops running and every further Init adds
\* exactly NumWorkers more: before Close the live loops number NumWorkers times the
\* Init calls (the one of NewManager included), and Close returns only when all of
\* them have exited.
C11_InitSpawnsEveryTime == []C11_Pool /\ [][C11_Step]_vars

C11_Witness ==
    /\ initCalls = 1
    /\ \E c \in CloseCalls : closePc[c] = "waiting"
    /\ wg = 2 * NumWorkers

----------------------------------------------------------------------------
(* Properties of the request id *)

\* C12: the request's id is unset in every state in which Replay has not returned
\* an id for it; once set it never changes; no two requests carry the same id.
C12_UnsetUntilAdmitted ==
    /\ \A r \in Calls : ~NilRet(r) => req[r].id = NoID
    /\ \A r, q \in Calls : (r # q /\ req[r].id # NoID) => req[r].id # req[q].id

C12_IdState ==
    \A r \in Calls :
        /\ (pc[r] \in {"notCalled", "afterValidate"} \/ ret[r].err \in PrePersistErrors)
              => req[r].id = NoID
        /\ (pc[r] \in {"afterInsert", "afterSend", "panicked"}
              \/ ret[r].err \in {"errInsert", "ErrRequestQueueFull", "nil"})
              => req[r].id # NoID
        /\ ret[r].id # NoID => (NilRet(r) /\ ret[r].id = req[r].id)
        /\ \A q \in Calls : (r # q /\ req[r].id # NoID) => req[r].id # req[q].id

C12_IdStep ==
    \A r \in Calls : req[r].id # NoID => req'[r].id = req[r].id

\* C12 as amended: the id is unset until the identity provider has answered; it is
\* written to the request before Insert and stays set when Replay returns the
\* Insert error or ErrRequestQueueFull; once set it never changes, the id Replay
\* returns is the request's id, and no two requests carry the same id.
C12_SetBeforeInsert == []C12_IdState /\ [][C12_IdStep]_vars

C12_Witness ==
    \E r, q \in Calls :
        /\ ret[r].err = "errInsert" /\ req[r].id # NoID
        /\ ret[q].err = "ErrRequestQueueFull" /\ req[q].id # NoID

----------------------------------------------------------------------------
(* Properties of the store's answer *)

C13_Answered ==
    \A r \in Calls :
        /\ queried[r] = "notfound" =>
              /\ passed[r]
              /\ pc[r] # "notCalled"
              /\ ret[r].err \notin {"errStore", "errConflict", "errTree"}
        /\ queried[r] = "other" =>
              /\ ~passed[r]
              /\ pc[r] = "returned"
              /\ ret[r] = [id |-> NoID, err |-> "errStore"]
              /\ req[r].id = NoID
              /\ sendAttempts[r] = 0
              /\ delivered[r] = 0
              /\ r \notin inProcess

C13_Step ==
    \A r \in Calls :
        (queried[r] = "unasked" /\ queried'[r] = "other") =>
            /\ store' = store
            /\ requestMap' = requestMap
            /\ <<workerRunning, workerRecv, workerStopped, inProcess, delivered>>' =
                  <<workerRunning, workerRecv, workerStopped, inProcess, delivered>>

\* C13: on the store's "not found" validate returns nil and Replay goes on to the
\* insert; on any other error of the query Replay returns that error, having
\* inserted and queued nothing.
C13_NotFoundIsSuccess == []C13_Answered /\ [][C13_Step]_vars

C13_Witness ==
    \E r, q \in Calls :
        /\ queried[r] = "notfound" /\ pc[r] = "afterInsert"
        /\ queried[q] = "other"

----------------------------------------------------------------------------
(* The validator as observed *)

\* the verdict on the first active record alone: its first node, in order, that has
\* a namesake in the request's tree, against the first such namesake
FirstMatchVerdict(specs, reqInput) ==
    LET an == TreeNodes(specs[1].job, specs[1].start, specs[1].end)
        qn == TreeNodes(reqInput.job, reqInput.start, reqInput.end)
        rows == {i \in 1..Len(an) : \E j \in 1..Len(qn) : an[i].name = qn[j].name}
    IN IF rows = {} THEN "nil"
       ELSE LET i == CHOOSE k \in rows : \A m \in rows : k <= m
                cols == {j \in 1..Len(qn) : an[i].name = qn[j].name}
                j == CHOOSE k \in cols : \A m \in cols : k <= m
            IN IF an[i].runs \cap qn[j].runs = {} THEN "nil" ELSE "errConflict"

\* C14: on a non-empty list of active records validate answers what the first
\* record's first pair of namesake nodes gives; later records and later pairs
\* do not count.
C14_FirstMatchWins ==
    (Answered /\ Len(vIn.reply.specs) > 0) =>
        vOut = FirstMatchVerdict(vIn.reply.specs, vIn.req)

C14_Witness ==
    /\ Answered
    /\ Len(vIn.reply.specs) = 2
    /\ vOut = "nil"
    /\ Overlaps(vIn.reply.specs, vIn.req)

----------------------------------------------------------------------------
(* The worker loop *)

IdleLoops == workerRunning + workerRecv

C15_State == workerStopped > 0 => requestQClosed

C15_Step ==
    /\ workerStopped' >= workerStopped
    /\ workerStopped' # workerStopped =>
          /\ requestQClosed
          /\ workerStopped' = workerStopped + 1
          /\ IdleLoops' = IdleLoops - 1
          /\ inProcess' = inProcess
    /\ inProcess' # inProcess =>
          \/ \E r \in Calls \ inProcess :
                /\ inProcess' = inProcess \cup {r}
                /\ delivered'[r] = delivered[r] + 1
                /\ workerRecv' = workerRecv - 1
                /\ workerRunning' = workerRunning
                /\ workerStopped' = workerStopped
          \/ \E r \in inProcess :
                /\ inProcess' = inProcess \ {r}
                /\ processed'[r] = processed[r] + 1
                /\ workerRunning' = workerRunning + 1
                /\ workerRecv' = workerRecv
                /\ workerStopped' = workerStopped

\* C15: a worker enters Process only by receiving one request from the queue, is idle
\* again when Process returns, and stops only while idle and only once the queue is
\* closed; no worker has stopped while the queue is open and a stopped worker stays
\* stopped.
C15_WorkerStateMachine == []C15_State /\ [][C15_Step]_vars

C15_Witness ==
    /\ workerStopped = NumWorkers
    /\ \E r \in Calls : processed[r] = 1 /\ outcome[r].err

C16_State ==
    \A r \in Calls :
        /\ delivered[r] <= 1
        /\ processed[r] <= delivered[r]
        /\ r \in inProcess => (delivered[r] = 1 /\ processed[r] = 0)
        /\ NilRet(r) =>
              /\ delivered[r] = 1
              /\ (r \in inProcess) # (processed[r] = 1)

C16_Step ==
    \A r \in Calls :
        processed'[r] # processed[r] =>
            /\ processed'[r] = processed[r] + 1
            /\ r \in inProcess /\ r \notin inProcess'
            /\ requestMap' = requestMap
            /\ Len(store') = Len(store)
            /\ \A i \in 1..Len(store) :
                  IF store[i].id = req[r].id
                  THEN store'[i] = [store[i] EXCEPT !.status = outcome'[r].status]
                  ELSE store'[i] = store[i]
            /\ workerRunning' = workerRunning + 1
            /\ workerStopped' = workerStopped

\* C16: every request for which Replay returned an id was received once and is either
\* in Process or was processed once, never more; when Process returns, with an error
\* or without, the record keeps the status Process left, the tracking map is
\* unchanged and the worker is idle again, free to receive the next request.
C16_NoRetry == []C16_State /\ [][C16_Step]_vars

C16_Witness ==
    /\ initCalls = 0
    /\ \E r, q \in Calls :
          /\ NilRet(r) /\ processed[r] = 1 /\ outcome[r].err
          /\ req[r].id \in requestMap
          /\ q \in inProcess

----------------------------------------------------------------------------
(* Interleaved Replay and Close calls *)

Active(rec) == rec.status \in Statuses

C18_NoSendOrCloseOnClosed ==
    /\ \A r \in Calls : pc[r] # "panicked"
    /\ \A c \in CloseCalls : closePc[c] # "panicked"

----------------------------------------------------------------------------
(* The zero-capacity queue *)

C19_State ==
    /\ \A r \in Calls :
          /\ (NilRet(r) \/ pc[r] = "afterSend") <=> delivered[r] = 1
          /\ delivered[r] = 1 => (r \in inProcess \/ processed[r] = 1)
          /\ ret[r].err = "ErrRequestQueueFull" => delivered[r] = 0
    /\ Cardinality(inProcess) <= NumWorkers * (1 + initCalls)

C19_Step ==
    \A r \in Calls :
        delivered'[r] # delivered[r] =>
            /\ ~requestQClosed
            /\ workerRecv > 0
            /\ workerRecv' = workerRecv - 1
            /\ r \notin inProcess
            /\ inProcess' = inProcess \cup {r}

\* C19: Replay returns an id only for a request that a worker, waiting in the receive
\* at the send, took at that instant; the requests admitted and not yet processed
\* are each held by a worker and number at most the worker loops.
C19_HandoffNeedsWaitingWorker == []C19_State /\ [][C19_Step]_vars

C19_Witness ==
    /\ initCalls = 0
    /\ \E r, q \in Calls :
          /\ NilRet(r) /\ r \in inProcess
          /\ ret[q].err = "ErrRequestQueueFull"

----------------------------------------------------------------------------
(* The tracking map *)

C20_MapWellFormed ==
    \A id \in requestMap :
        /\ RecordsOf(id) # {}
        /\ \E r \in Calls : req[r].id = id /\ delivered[r] = 1

C20_MapStep ==
    /\ requestMap \subseteq requestMap'
    /\ Cardinality(requestMap' \ requestMap) <= 1

\* C20: whenever a worker is in Process for a request the request's id is in the
\* tracking map; every id in the map is that of a stored record and of a request
\* handed to a worker; entries are only added, one at a time.
C20_TrackedBeforeProcess ==
    /\ [](\A r \in inProcess : req[r].id \in requestMap)
    /\ []C20_MapWellFormed
    /\ [][C20_MapStep]_vars

C20_State ==
    /\ \A r \in Calls : NilRet(r) => req[r].id \in requestMap
    /\ \A r \in Calls : req[r].id \in requestMap => pc[r] = "returned"
    /\ C20_MapWellFormed

\* C20 as amended: the entry is written after the handoff, so a worker may be in
\* Process, or have finished it, before the id is in the map; the id is in the map
\* once Replay has returned it. Every id in the map is that of a stored record and
\* of a request handed to a worker; entries are only added, one at a time.
C20_TrackedWhenReturned == []C20_State /\ [][C20_MapStep]_vars

C20_Witness ==
    \E r, q \in Calls :
        /\ processed[r] = 1 /\ req[r].id \notin requestMap
        /\ NilRet(q) /\ req[q].id \in requestMap

====
